---- MODULE Spec2Model ----
\* Renogy Rover Li monitor: the Modbus RTU transport (Models/SerialConnection.py)
\* and the register decoder with its static cache (Models/RenogyRoverLi.py).
EXTENDS Integers, Sequences, FiniteSets, TLC

\* ---------------------------------------------------------------- bytes
\* Python's a ^ b on non-negative integers.
RECURSIVE Xor(_, _)
Xor(p, q) ==
    IF p = 0 THEN q
    ELSE IF q = 0 THEN p
    ELSE ((p + q) % 2) + 2 * Xor(p \div 2, q \div 2)

\* value >> 8
Hi(v) == v \div 256

\* value & 0xFF
Lo(v) == v % 256

\* ---------------------------------------------------------------- CRC
\* The reflected polynomial 0xA001 of line 172.
CrcPoly == 40961

\* The initial value 0xFFFF of line 165.
CrcInit == 65535

\* A shift that xors the polynomial in whatever bit was shifted out.
CrcShiftAlways(c) == Xor(c \div 2, CrcPoly)

\* One pass of the inner loop "for _ in range(8)": shift right, and xor the
\* polynomial in when the bit shifted out was set.
CrcShift(c) ==
    IF c % 2 = 1 THEN Xor(c \div 2, CrcPoly) ELSE c \div 2

RECURSIVE CrcBits(_, _)
CrcBits(c, n) == IF n = 0 THEN c ELSE CrcBits(CrcShift(c), n - 1)

\* The outer loop "for byte in data": crc ^= byte, then eight shifts. The
\* comparison makes the running value be computed byte by byte.
RECURSIVE CrcFold(_, _, _)
CrcFold(acc, data, i) ==
    IF i > Len(data) THEN acc
    ELSE LET step == CrcBits(Xor(acc, data[i]), 8)
         IN  IF step >= 0 THEN CrcFold(step, data, i + 1) ELSE step

\* The two CRC bytes, high byte first.
calculate_crc_high_first(data) ==
    LET crc16 == CrcFold(CrcInit, data, 1) IN <<crc16 \div 256, crc16 % 256>>

\* _calculate_crc: the two CRC bytes, low byte first.
calculate_crc(data) ==
    LET crc16 == CrcFold(CrcInit, data, 1) IN <<crc16 % 256, crc16 \div 256>>

\* ---------------------------------------------------------------- request
slave_id == 1

function_code == 3

\* The six-byte message of lines 203-209 followed by its CRC (lines 212-213).
BadFrameNoCrcSwap(reg, count) ==
    LET message == <<slave_id, function_code, Lo(Hi(reg)), Lo(reg),
                     Lo(Hi(count)), Lo(count)>>
        swapped == calculate_crc(message)
    IN  message \o <<swapped[2], swapped[1]>>

RequestFrame(reg, count) ==
    LET message == <<slave_id, function_code, Lo(Hi(reg)), Lo(reg),
                     Lo(Hi(count)), Lo(count)>>
    IN  message \o calculate_crc(message)

\* ---------------------------------------------------------------- values
\* Python's None as a result of read_register, and a register list.
None == [kind |-> "None", regs |-> <<>>]

List(regs) == [kind |-> "list", regs |-> regs]

\* The call has not returned yet.
Pending == [kind |-> "pending", regs |-> <<>>]

\* What uart.read() hands back: None on a timeout, or the bytes received.
NoBytes == [none |-> TRUE, bytes |-> <<>>]

Bytes(b) == [none |-> FALSE, bytes |-> b]

\* DEFAULT_RETRIES, the retry budget of a SerialConnection built with defaults.
retries == 5

\* ---------------------------------------------------------------- response checks
\* Line 227: "not response or len(response) < 5".
TooShortNever(resp) == resp.none

TooShort(resp) == resp.none \/ Len(resp.bytes) < 5

\* Line 233: the second byte is the function code with bit 0x80 set.
IsErrorResponse(b) == b[2] = function_code + 128

\* Line 239: the header does not echo the slave id and the function code.
HeaderAnyFunction(b) == b[1] # slave_id

HeaderMismatch(b) == b[1] # slave_id \/ b[2] # function_code

\* Line 245.
byte_count(b) == b[3]

\* Line 248: fewer bytes than header + data + CRC.
Truncated(b) == Len(b) < byte_count(b) + 5

\* Lines 257-260: the two bytes after the data against the CRC of what precedes.
CrcIgnored(b) == FALSE

CrcOfLastTwoBytes(b) ==
    SubSeq(b, Len(b) - 1, Len(b)) # calculate_crc(SubSeq(b, 1, Len(b) - 2))

CrcLowByteOnly(b) ==
    b[3 + byte_count(b) + 1] # calculate_crc(SubSeq(b, 1, 3 + byte_count(b)))[1]

CrcMismatch(b) ==
    SubSeq(b, 3 + byte_count(b) + 1, 3 + byte_count(b) + 2)
        # calculate_crc(SubSeq(b, 1, 3 + byte_count(b)))

\* Lines 254 and 266-270: one register per complete pair of data bytes.
RegistersLowFirst(b) ==
    [k \in 1..(byte_count(b) \div 2) |-> b[3 + 2 * k - 1] + 256 * b[3 + 2 * k]]

Registers(b) ==
    [k \in 1..(byte_count(b) \div 2) |-> b[3 + 2 * k - 1] * 256 + b[3 + 2 * k]]

\* A decision that goes on to another attempt after an accepted response.
AcceptedResponseRetries(resp) ==
    IF TooShort(resp) THEN [kind |-> "retry", regs |-> <<>>]
    ELSE IF IsErrorResponse(resp.bytes) THEN [kind |-> "abort", regs |-> <<>>]
    ELSE [kind |-> "retry", regs |-> Registers(resp.bytes)]

\* Lines 227-275 as one decision on the response of an attempt:
\* "retry" (continue), "abort" (return None) or "ok" (return registers).
ErrorResponseRetries(resp) ==
    IF TooShort(resp) THEN [kind |-> "retry", regs |-> <<>>]
    ELSE LET b == resp.bytes IN
         IF IsErrorResponse(b) THEN [kind |-> "retry", regs |-> <<>>]
         ELSE IF HeaderMismatch(b) THEN [kind |-> "retry", regs |-> <<>>]
         ELSE IF Truncated(b) THEN [kind |-> "retry", regs |-> <<>>]
         ELSE IF CrcMismatch(b) THEN [kind |-> "retry", regs |-> <<>>]
         ELSE [kind |-> "ok", regs |-> Registers(b)]

Validate(resp) ==
    IF TooShort(resp) THEN [kind |-> "retry", regs |-> <<>>]
    ELSE LET b == resp.bytes IN
         IF IsErrorResponse(b) THEN [kind |-> "abort", regs |-> <<>>]
         ELSE IF HeaderMismatch(b) THEN [kind |-> "retry", regs |-> <<>>]
         ELSE IF Truncated(b) THEN [kind |-> "retry", regs |-> <<>>]
         ELSE IF CrcMismatch(b) THEN [kind |-> "retry", regs |-> <<>>]
         ELSE [kind |-> "ok", regs |-> Registers(b)]

\* The try block of lines 192-277 encloses every channel operation of an attempt.
CaughtButFlush(where) == where # "flush"

Caught(where) == where \in {"connect", "flush", "write", "recv"}

\* ---------------------------------------------------------------- the channel
\* A well-formed frame with the given header and data bytes.
Frame(sid, fc, payload) ==
    LET body == <<sid, fc, Len(payload)>> \o payload IN body \o calculate_crc(body)

\* b with byte i replaced by another value.
Tamper(b, i) == [b EXCEPT ![i] = (b[i] + 1) % 256]

DataPatterns ==
    { <<>>, <<0, 123>>, <<1, 2, 3>>, <<0, 123, 0, 4>>, <<156, 25, 0, 99>>,
      <<0, 1, 2, 3, 4, 5, 6, 7>> }

GoodFrames == { Frame(slave_id, function_code, d) : d \in DataPatterns }

\* Everything the channel is taken to deliver to one attempt.
Responses ==
    { NoBytes, Bytes(<<>>), Bytes(<<1, 3, 2, 0>>) }
    \cup { Bytes(f) : f \in GoodFrames }
    \cup { Bytes(Tamper(f, Len(f))) : f \in GoodFrames }
    \cup { Bytes(Tamper(f, Len(f) - 1)) : f \in GoodFrames }
    \cup { Bytes(Tamper(Frame(slave_id, function_code, <<0, 123>>), 5)) }
    \cup { Bytes(Frame(2, function_code, <<0, 123>>)),
           Bytes(Frame(slave_id, 4, <<0, 123>>)),
           Bytes(Tamper(Frame(2, function_code, <<0, 123>>), 7)) }
    \cup { Bytes(<<slave_id, 131, 2>> \o calculate_crc(<<slave_id, 131, 2>>)),
           Bytes(<<slave_id, 131, 2, 0, 0>>),
           Bytes(<<2, 131, 2, 0, 0>>) }
    \cup { Bytes(SubSeq(Frame(slave_id, function_code, <<0, 123, 0, 4>>), 1, 7)),
           Bytes(Frame(slave_id, function_code, <<0, 123>>) \o <<9, 9>>),
           Bytes(Frame(slave_id, function_code, <<0, 123>>) \o <<7>>) }

\* The (register, bits) pairs read_register is called with: three schemes of
\* sectionMap and one call whose count needs its high byte.
Requests == { <<257, 2>>, <<20, 4>>, <<57348, 2>>, <<10, 258>> }

\* The request frame of every call and the decision on every response,
\* computed once.
FrameOf == [rq \in Requests |-> RequestFrame(rq[1], rq[2])]

Decision == [r \in Responses |-> Validate(r)]

\* -------------------------------------------------------------- decoder
\* Python values of the decoder: None, int, float (a raw count of tenths or
\* hundredths: n / d), bool, str, and the exception a call ends with.
PyNone == [t |-> "None"]
PyInt(n) == [t |-> "int", n |-> n]
PyFloat(n, d) == [t |-> "float", n |-> n, d |-> d]
PyBool(b) == [t |-> "bool", b |-> b]
PyStr(s) == [t |-> "str", s |-> s]
PyDict(items) == [t |-> "dict", items |-> items]
TypeError == [t |-> "raise", exc |-> "TypeError"]
NoValue == [t |-> "pending"]

IsNone(v) == v.t = "None"

\* str.format of a non-negative int: its decimal digits.
DigitChar == <<"0", "1", "2", "3", "4", "5", "6", "7", "8", "9">>

RECURSIVE str(_)
str(n) == IF n < 10 THEN DigitChar[n + 1] ELSE str(n \div 10) \o DigitChar[(n % 10) + 1]

BATTERY_TYPE ==
    [k \in 1..5 |->
        CASE k = 1 -> "open" [] k = 2 -> "sealed" [] k = 3 -> "gel"
          [] k = 4 -> "lithium" [] k = 5 -> "self-customized"]

CHARGING_STATE ==
    [k \in 0..6 |->
        CASE k = 0 -> "deactivated" [] k = 1 -> "activated" [] k = 2 -> "mppt"
          [] k = 3 -> "equalizing" [] k = 4 -> "boost" [] k = 5 -> "floating"
          [] k = 6 -> "current limiting"]

\* dict.get(key): the entry, or None for a key the table lacks.
TableGet(table, key) ==
    IF key.t = "int" /\ key.n \in DOMAIN table THEN PyStr(table[key.n]) ELSE PyNone

sectionMap ==
    [
      model |-> [bytes |-> 8, address |-> 18],
      system_voltage_current |-> [bytes |-> 2, address |-> 10],
      system_intensity_current |-> [bytes |-> 2, address |-> 10],
      hardware |-> [bytes |-> 4, address |-> 20],
      version |-> [bytes |-> 4, address |-> 20],
      serial_number |-> [bytes |-> 4, address |-> 24],
      battery_percentage |-> [bytes |-> 2, address |-> 256],
      battery_voltage |-> [bytes |-> 2, address |-> 257],
      battery_temperature |-> [bytes |-> 2, address |-> 259],
      controller_temperature |-> [bytes |-> 2, address |-> 259],
      load_voltage |-> [bytes |-> 2, address |-> 260],
      load_current |-> [bytes |-> 2, address |-> 261],
      load_power |-> [bytes |-> 2, address |-> 262],
      solar_voltage |-> [bytes |-> 2, address |-> 263],
      solar_current |-> [bytes |-> 2, address |-> 264],
      solar_power |-> [bytes |-> 2, address |-> 265],
      today_battery_min_voltage |-> [bytes |-> 2, address |-> 267],
      today_battery_max_voltage |-> [bytes |-> 2, address |-> 268],
      today_max_charging_current |-> [bytes |-> 2, address |-> 269],
      today_max_discharging_current |-> [bytes |-> 2, address |-> 270],
      today_max_charging_power |-> [bytes |-> 2, address |-> 269],
      today_max_discharging_power |-> [bytes |-> 2, address |-> 270],
      today_charging_amp_hours |-> [bytes |-> 2, address |-> 273],
      today_discharging_amp_hours |-> [bytes |-> 2, address |-> 274],
      today_power_generation |-> [bytes |-> 2, address |-> 275],
      today_power_consumption |-> [bytes |-> 2, address |-> 276],
      historical_total_days_operating |-> [bytes |-> 2, address |-> 277],
      historical_total_number_battery_over_discharges |-> [bytes |-> 2, address |-> 278],
      historical_total_number_battery_full_charges |-> [bytes |-> 2, address |-> 279],
      historical_total_charging_amp_hours |-> [bytes |-> 4, address |-> 280],
      historical_total_discharging_amp_hours |-> [bytes |-> 4, address |-> 282],
      historical_cumulative_power_generation |-> [bytes |-> 4, address |-> 284],
      historical_cumulative_power_consumption |-> [bytes |-> 4, address |-> 286],
      street_light_status |-> [bytes |-> 2, address |-> 288],
      street_light_brightness |-> [bytes |-> 2, address |-> 288],
      charging_status |-> [bytes |-> 2, address |-> 288],
      nominal_battery_capacity |-> [bytes |-> 2, address |-> 57346],
      battery_type |-> [bytes |-> 2, address |-> 57348]
    ]

\* The channel as the decoder meets it: the controller answers every request
\* ("up"), every answer arrives with a damaged CRC ("noisy") or nothing
\* arrives ("down").
Links == {"up", "noisy", "down"}

\* Three controllers' register files. B differs from A in the registers
\* whose decoding has special cases: a rated voltage of 0, another battery
\* voltage, swapped temperature bytes (0x19 is 25 degrees, 0x9C has the sign
\* bit set), no panel voltage, charging off, capacity 0 and a battery-type
\* code the table lacks. C is A with a rated current of 30 A (0x181E at
\* 0x000A), a charging state the table lacks and without the panel-voltage
\* register 0x0107: it answers that request with a Modbus exception.
Devices == {"A", "B", "C"}

DeviceRegister(dv, addr) ==
    CASE addr = 10 -> IF dv = "B" THEN 20 ELSE IF dv = "C" THEN 6174 ELSE 6164
      [] addr = 20 -> 1
      [] addr = 21 -> 515
      [] addr = 22 -> 4
      [] addr = 23 -> 1286
      [] addr = 24 -> 1
      [] addr = 25 -> 23
      [] addr = 257 -> IF dv = "B" THEN 131 ELSE 123
      [] addr = 259 -> IF dv = "B" THEN 39961 ELSE 6556
      [] addr = 263 -> IF dv = "B" THEN 0 ELSE 269
      [] addr = 281 -> 1234
      [] addr = 288 -> IF dv = "B" THEN 0 ELSE IF dv = "C" THEN 9 ELSE 2
      [] addr = 57346 -> IF dv = "B" THEN 0 ELSE 100
      [] addr = 57348 -> IF dv = "B" THEN 99 ELSE 4
      [] OTHER -> addr % 251

\* A conforming answer to a function-3 request: 2 * count data bytes, or
\* the exception frame (function code + 0x80, code 2: illegal address).
DeviceFrame(dv, reg, count) ==
    IF dv = "C" /\ reg = 263
    THEN <<slave_id, function_code + 128, 2>>
         \o calculate_crc(<<slave_id, function_code + 128, 2>>)
    ELSE
    Frame(slave_id, function_code,
          [i \in 1..(2 * count) |->
              IF i % 2 = 1 THEN Hi(DeviceRegister(dv, reg + (i - 1) \div 2))
              ELSE Lo(DeviceRegister(dv, reg + (i - 1) \div 2))])

\* What arrives of the frame a controller sends on the line lk.
Line(lk, frame) ==
    CASE lk = "up" -> Bytes(frame)
      [] lk = "noisy" -> Bytes(Tamper(frame, Len(frame)))
      [] OTHER -> NoBytes

\* The same frame once per attempt: written by the call, or delivered to it.
RECURSIVE Written(_, _)
Written(frame, times) ==
    IF times = 0 THEN <<>> ELSE Append(Written(frame, times - 1), frame)

\* What the channel delivers to attempt 1..retries of one call.
Channel(lk, dv, reg, count) ==
    Written(Line(lk, DeviceFrame(dv, reg, count)), retries)

\* The for loop of read_register from loop index k, run to its return: the
\* decision v on the answer to attempt k + 1 ends the call or the loop goes on.
RECURSIVE Attempts(_, _)
\* A loop that gives the call up at the first failed attempt.
DecideGivesUp(k, answers, v) ==
    [result |-> IF v.kind = "ok" THEN List(v.regs) ELSE None,
     attempt |-> k, response |-> answers[k + 1]]

Decide(k, answers, v) ==
    IF v.kind = "retry" THEN Attempts(k + 1, answers)
    ELSE [result |-> IF v.kind = "ok" THEN List(v.regs) ELSE None,
          attempt |-> k, response |-> answers[k + 1]]

Attempts(k, answers) ==
    IF k >= retries
    THEN [result |-> None, attempt |-> k - 1, response |-> answers[k]]
    ELSE Decide(k, answers, Validate(answers[k + 1]))

\* One call read_register(reg, count) that ended as `run`: its arguments,
\* what it returned and what it left behind.
Exchange(reg, count, run) ==
    [register |-> reg, bits |-> count, result |-> run.result,
     attempt |-> run.attempt, response |-> run.response,
     sent |-> Written(RequestFrame(reg, count), run.attempt + 1)]

\* self.serial.read_register(scheme['address'], scheme['bytes'], ...) for the
\* scheme of field f, as one call.
ReadCall(lk, dv, f) ==
    Exchange(sectionMap[f].address, sectionMap[f].bytes,
             Attempts(0, Channel(lk, dv, sectionMap[f].address, sectionMap[f].bytes)))

\* The fields and the channel conditions in a fixed order.
RECURSIVE Listed(_)
Listed(fs) ==
    IF fs = {} THEN <<>>
    ELSE Append(Listed(fs \ {CHOOSE e \in fs : TRUE}), CHOOSE e \in fs : TRUE)

FieldList == Listed(DOMAIN sectionMap)

FieldIndex(f) == CHOOSE i \in 1..Len(FieldList) : FieldList[i] = f

LineList == Listed(Links \X Devices)

LineIndex(lk, dv) == CHOOSE i \in 1..Len(LineList) : LineList[i] = <<lk, dv>>

\* Every call the decoder can make in every channel condition, computed once.
RECURSIVE ReadRow(_, _, _)
ReadRow(lk, dv, n) ==
    IF n = 0 THEN <<>>
    ELSE Append(ReadRow(lk, dv, n - 1), ReadCall(lk, dv, FieldList[n]))

RECURSIVE ReadRows(_)
ReadRows(n) ==
    IF n = 0 THEN <<>>
    ELSE Append(ReadRows(n - 1),
                ReadRow(LineList[n][1], LineList[n][2], Len(FieldList)))

ReadTable == ReadRows(Len(LineList))

Read(lk, dv, f) == ReadTable[LineIndex(lk, dv)][FieldIndex(f)]

\* "if response:" on the value read_register returned.
Truthy(r) == r.kind = "list" /\ Len(r.regs) > 0

\* The six _cached_* attributes (lines 73-79).
CachedFields ==
    {"version", "system_voltage_current", "hardware", "battery_type",
     "serial_number", "nominal_battery_capacity"}

\* How a getter call ends: with a value, with an exception, or (blocked) in
\* sleep(5) inside its "while True"; what it left in the cache; the calls of
\* read_register it made, in order.
Returns(v, c, rds) == [ret |-> v, cache |-> c, reads |-> rds, blocked |-> FALSE]
Sleeps(c, rds) == [ret |-> NoValue, cache |-> c, reads |-> rds, blocked |-> TRUE]

\* self._cached_<g> = v; return self._cached_<g>, after the call rr.
StoresInEverySlot(g, c, v, rr) ==
    Returns(v, [f \in DOMAIN c |-> v], <<rr>>)

Stores(g, c, v, rr) == Returns(v, [c EXCEPT ![g] = v], <<rr>>)

\* 'V{}.{}.{}'.format(major, minor, patch)
VersionString(major, minor, patch) ==
    PyStr("V" \o str(major) \o "." \o str(minor) \o "." \o str(patch))

\* A decode that keeps bits 0-6 as the magnitude.
TemperatureSevenBits(b) ==
    IF (b \div 128) = 1 THEN -((b % 128) - 128) ELSE b % 128

\* -(temp_value - 128) if sign == 1 else temp_value, for the byte b.
Temperature(b) ==
    IF (b \div 128) = 1 THEN -((b % 256) - 128) ELSE b % 256

\* A decode that takes both version strings from the first two registers.
DecodeStaticSameRegisters(g, regs) ==
    CASE g \in {"hardware", "version"} ->
            VersionString(regs[1] % 256, regs[2] \div 256, regs[2] % 256)
      [] g = "serial_number" -> PyStr(str(regs[1]) \o str(regs[2]))
      [] g = "nominal_battery_capacity" -> PyInt(regs[1])
      [] g = "battery_type" -> TableGet(BATTERY_TYPE, PyInt(regs[1]))

\* The value a cached getter stores for the registers it read.
DecodeStatic(g, regs) ==
    CASE g = "hardware" ->
            VersionString(regs[3] % 256, regs[4] \div 256, regs[4] % 256)
      [] g = "version" ->
            VersionString(regs[1] % 256, regs[2] \div 256, regs[2] % 256)
      [] g = "serial_number" -> PyStr(str(regs[1]) \o str(regs[2]))
      [] g = "nominal_battery_capacity" -> PyInt(regs[1])
      [] g = "battery_type" -> TableGet(BATTERY_TYPE, PyInt(regs[1]))

\* get_hardware, get_version, get_serial_number, get_nominal_battery_capacity
\* and get_battery_type after their read rr: "if response:" stores and
\* returns the decoded value, else None is returned.
StoreStatic(g, c, rr) ==
    IF Truthy(rr.result)
    THEN Stores(g, c, DecodeStatic(g, rr.result.regs), rr)
    ELSE Returns(PyNone, c, <<rr>>)

\* A cached getter that reads whatever the slot holds and assigns what the
\* read gave.
CachedGetterRereads(g, c, lk, dv) ==
    Stores(g, c, StoreStatic(g, c, Read(lk, dv, g)).ret, Read(lk, dv, g))

\* The cached getters: the slot's value when it is not None, else one read.
CachedGetter(g, c, lk, dv) ==
    IF ~IsNone(c[g]) THEN Returns(c[g], c, <<>>)
    ELSE StoreStatic(g, c, Read(lk, dv, g))

\* The loop body of get_system_voltage_current after its read rr:
\* response[0] >> 8 is stored; on None the subscript raises inside the try
\* and the loop sleeps.
StoreVoltage(c, rr) ==
    IF rr.result.kind = "list" /\ Len(rr.result.regs) > 0
    THEN Stores("system_voltage_current", c, PyInt(rr.result.regs[1] \div 256), rr)
    ELSE Sleeps(c, <<rr>>)

get_system_voltage_current(c, lk, dv) ==
    IF ~IsNone(c["system_voltage_current"])
    THEN Returns(c["system_voltage_current"], c, <<>>)
    ELSE StoreVoltage(c, Read(lk, dv, "system_voltage_current"))

\* A loop body that returns the register as it was read.
LoopBodyWholeRegister(g, c, rr) ==
    IF rr.result.kind = "list" /\ Len(rr.result.regs) > 0
    THEN Returns(PyInt(rr.result.regs[1]), c, <<rr>>)
    ELSE Sleeps(c, <<rr>>)

\* The loop body of get_system_intensity_current and get_battery_temperature
\* after its read rr: the same loop without a cache.
LoopBody(g, c, rr) ==
    IF rr.result.kind = "list" /\ Len(rr.result.regs) > 0
    THEN Returns(IF g = "system_intensity_current"
                 THEN PyInt(rr.result.regs[1] % 256)
                 ELSE PyInt(Temperature(rr.result.regs[1] % 256)),
                 c, <<rr>>)
    ELSE Sleeps(c, <<rr>>)

LoopingGetter(g, c, lk, dv) == LoopBody(g, c, Read(lk, dv, g))

\* get_controller_temperature after its read rr: response[0] >> 8 with no
\* guard.
ControllerTemperature(c, rr) ==
    IF rr.result.kind = "list" /\ Len(rr.result.regs) > 0
    THEN Returns(PyInt(Temperature(rr.result.regs[1] \div 256)), c, <<rr>>)
    ELSE Returns(TypeError, c, <<rr>>)

get_controller_temperature(c, lk, dv) ==
    ControllerTemperature(c, Read(lk, dv, "controller_temperature"))

\* A getter that returns the first register whatever the field.
PlainValueFirstRegister(g, c, rr) ==
    IF Truthy(rr.result)
    THEN Returns(PyInt(rr.result.regs[1]), c, <<rr>>)
    ELSE Returns(PyNone, c, <<rr>>)

\* The getters of the form "<decoded> if response else None", after their
\* read rr: float(response[0]) / 10, float(response[0]) / 100, response[1]
\* of a 32-bit counter, response[0] & 0x00ff, or response[0].
PlainValue(g, c, rr) ==
    IF Truthy(rr.result)
    THEN Returns(
           CASE g \in {"battery_voltage", "load_voltage", "solar_voltage",
                       "today_battery_min_voltage", "today_battery_max_voltage"}
                  -> PyFloat(rr.result.regs[1], 10)
             [] g \in {"load_current", "solar_current",
                       "today_max_charging_current",
                       "today_max_discharging_current"}
                  -> PyFloat(rr.result.regs[1], 100)
             [] g \in {"historical_total_charging_amp_hours",
                       "historical_total_discharging_amp_hours",
                       "historical_cumulative_power_generation",
                       "historical_cumulative_power_consumption"}
                  -> PyInt(rr.result.regs[2])
             [] g = "charging_status" -> PyInt(rr.result.regs[1] % 256)
             [] OTHER -> PyInt(rr.result.regs[1]),
           c, <<rr>>)
    ELSE Returns(PyNone, c, <<rr>>)

\* A getter that answers without a read.
PlainGetterNoRead(g, c, lk, dv) == Returns(PyNone, c, <<>>)

PlainGetter(g, c, lk, dv) == PlainValue(g, c, Read(lk, dv, g))

\* The interpolation without its two clamps.
BrightnessUnclamped(raw) == (100 * (raw - 123)) \div 292

\* int(porcent) of get_street_light_brightness for a panel voltage of
\* raw / 10 volts. In binary floating point (100 / (41.5 - 12.3)) *
\* (26.9 - 12.3) falls just below 50 and int() truncates it to 49; for
\* every other raw value the truncation is that of the exact quotient.
Brightness(raw) ==
    IF raw >= 415 THEN 100
    ELSE IF raw < 123 THEN 0
    ELSE IF raw = 269 THEN 49
    ELSE (100 * (raw - 123)) \div 292

\* get_street_light_brightness once voltage = get_solar_voltage() has
\* returned: the comparison has no guard.
BrightnessOf(c, voltage) ==
    IF IsNone(voltage.ret)
    THEN Returns(TypeError, c, voltage.reads)
    ELSE Returns(PyInt(Brightness(voltage.ret.n)), c, voltage.reads)

get_street_light_brightness(c, lk, dv) ==
    BrightnessOf(c, PlainGetter("solar_voltage", c, lk, dv))

\* A status that is on for every brightness above zero.
StatusOfAnyLight(c, cond, again) ==
    IF cond.ret.t = "raise" THEN cond
    ELSE IF cond.ret.n = 0 THEN Returns(PyBool(FALSE), c, cond.reads)
    ELSE IF again.ret.t = "raise"
    THEN Returns(again.ret, c, cond.reads \o again.reads)
    ELSE Returns(PyBool(again.ret.n > 0), c, cond.reads \o again.reads)

\* get_street_light_status: the condition is one call of
\* get_street_light_brightness (cond), the value a second one (again).
StatusOf(c, cond, again) ==
    IF cond.ret.t = "raise" THEN cond
    ELSE IF cond.ret.n = 0 THEN Returns(PyBool(FALSE), c, cond.reads)
    ELSE IF again.ret.t = "raise"
    THEN Returns(again.ret, c, cond.reads \o again.reads)
    ELSE Returns(PyBool(10 * again.ret.n > 123), c, cond.reads \o again.reads)

get_street_light_status(c, lk, dv) ==
    StatusOf(c, get_street_light_brightness(c, lk, dv),
                get_street_light_brightness(c, lk, dv))

\* get_charging_status_label: the status is read once for the condition
\* (charging_status) and once more for the lookup (again).
LabelOf(c, charging_status, again) ==
    IF IsNone(charging_status.ret) \/ charging_status.ret.n = 0
    THEN Returns(TableGet(CHARGING_STATE, PyInt(0)), c, charging_status.reads)
    ELSE Returns(TableGet(CHARGING_STATE, again.ret), c,
                 charging_status.reads \o again.reads)

get_charging_status_label(c, lk, dv) ==
    LabelOf(c, PlainGetter("charging_status", c, lk, dv),
               PlainGetter("charging_status", c, lk, dv))

\* The call get_<g>() on a decoder whose cache is c; 'device_id' is the
\* attribute the controller view reports without a call.
Getter(g, c, lk, dv) ==
    CASE g = "device_id" -> Returns(PyInt(0), c, <<>>)
      [] g = "system_voltage_current" -> get_system_voltage_current(c, lk, dv)
      [] g \in CachedFields \ {"system_voltage_current"} -> CachedGetter(g, c, lk, dv)
      [] g \in {"system_intensity_current", "battery_temperature"} ->
            LoopingGetter(g, c, lk, dv)
      [] g = "controller_temperature" -> get_controller_temperature(c, lk, dv)
      [] g = "street_light_brightness" -> get_street_light_brightness(c, lk, dv)
      [] g = "street_light_status" -> get_street_light_status(c, lk, dv)
      [] g = "charging_status_label" -> get_charging_status_label(c, lk, dv)
      [] OTHER -> PlainGetter(g, c, lk, dv)

\* A transport that serves a register value of the caller's choice: the
\* controller answers the request of `count` registers with raw as the
\* first of them and 0 for the others.
MaxRaw == 420

\* Every byte in the position a temperature getter decodes, and every
\* voltage from 0 to MaxRaw tenths of a volt.
Served(g) ==
    CASE g = "battery_temperature" -> (0..255) \cup {6556, 39961}
      [] g = "controller_temperature" ->
            {256 * b : b \in 0..255} \cup {6556, 39961}
      [] OTHER -> 0..MaxRaw

\* read_register for the scheme of field f on that transport: every attempt
\* is answered with the same frame.
MockRead(lk, f, raw) ==
    Exchange(sectionMap[f].address, sectionMap[f].bytes,
             Attempts(0, Written(
                 Line(lk, Frame(slave_id, function_code,
                                [i \in 1..(2 * sectionMap[f].bytes) |->
                                    IF i = 1 THEN Hi(raw)
                                    ELSE IF i = 2 THEN Lo(raw) ELSE 0])),
                 retries)))

\* The getters exercised on it, and the field each of them reads.
MockedGetters ==
    {"battery_voltage", "battery_temperature", "controller_temperature",
     "street_light_brightness", "street_light_status"}

ReadOf(g) ==
    CASE g \in {"street_light_brightness", "street_light_status"} -> "solar_voltage"
      [] g = "charging_status_label" -> "charging_status"
      [] OTHER -> g

\* The call get_<g>() whose read_register calls were each rr.
Mocked(g, c, rr) ==
    CASE g = "battery_temperature" -> LoopBody(g, c, rr)
      [] g = "controller_temperature" -> ControllerTemperature(c, rr)
      [] g = "street_light_brightness" ->
            BrightnessOf(c, PlainValue("solar_voltage", c, rr))
      [] g = "street_light_status" ->
            StatusOf(c, BrightnessOf(c, PlainValue("solar_voltage", c, rr)),
                        BrightnessOf(c, PlainValue("solar_voltage", c, rr)))
      [] OTHER -> PlainValue(g, c, rr)

\* The keys of the aggregate views, in the order their getters are called.
get_today_historical_info_datas ==
    <<"today_battery_max_voltage", "today_battery_min_voltage",
      "today_max_charging_current", "today_max_discharging_current",
      "today_max_charging_power", "today_charging_amp_hours",
      "today_discharging_amp_hours", "today_power_generation",
      "today_power_consumption">>

get_historical_info_datas ==
    <<"historical_total_days_operating",
      "historical_total_number_battery_over_discharges",
      "historical_total_number_battery_full_charges",
      "historical_total_charging_amp_hours",
      "historical_total_discharging_amp_hours",
      "historical_cumulative_power_generation",
      "historical_cumulative_power_consumption">>

get_all_controller_info_datas ==
    <<"device_id", "hardware", "version", "serial_number",
      "system_voltage_current", "system_intensity_current", "battery_type",
      "nominal_battery_capacity">>

get_all_solar_panel_info_datas == <<"solar_current", "solar_voltage", "solar_power">>

get_all_battery_info_datas ==
    <<"battery_voltage", "battery_temperature", "battery_percentage",
      "charging_status", "charging_status_label">>

get_all_load_info_datas == <<"load_voltage", "load_current", "load_power">>

\* A union of the six group views only.
get_all_datas_groups_only ==
    get_today_historical_info_datas \o get_historical_info_datas
    \o get_all_controller_info_datas \o get_all_solar_panel_info_datas
    \o get_all_battery_info_datas \o get_all_load_info_datas

get_all_datas ==
    get_today_historical_info_datas \o get_historical_info_datas
    \o get_all_controller_info_datas \o get_all_solar_panel_info_datas
    \o get_all_battery_info_datas \o get_all_load_info_datas
    \o <<"controller_temperature", "street_light_status",
         "street_light_brightness">>

\* The getters _initialize_static_data calls, each in its own try block.
initialize_static_data ==
    <<"version", "hardware", "serial_number", "system_voltage_current",
      "battery_type", "nominal_battery_capacity">>

Views ==
    {"get_today_historical_info_datas", "get_historical_info_datas",
     "get_all_controller_info_datas", "get_all_solar_panel_info_datas",
     "get_all_battery_info_datas", "get_all_load_info_datas", "get_all_datas"}

\* The field getters: one per key of get_all_datas but 'device_id', and
\* get_today_max_discharging_power, which no view calls.
FieldGetters ==
    ({get_all_datas[k] : k \in 1..Len(get_all_datas)} \ {"device_id"})
    \cup {"today_max_discharging_power"}

\* What a caller can invoke on a constructed decoder.
Operations == FieldGetters \cup Views

\* The getter calls an operation makes, in order.
Plan(o) ==
    CASE o = "__init__" -> initialize_static_data
      [] o = "get_today_historical_info_datas" -> get_today_historical_info_datas
      [] o = "get_historical_info_datas" -> get_historical_info_datas
      [] o = "get_all_controller_info_datas" -> get_all_controller_info_datas
      [] o = "get_all_solar_panel_info_datas" -> get_all_solar_panel_info_datas
      [] o = "get_all_battery_info_datas" -> get_all_battery_info_datas
      [] o = "get_all_load_info_datas" -> get_all_load_info_datas
      [] o = "get_all_datas" -> get_all_datas
      [] OTHER -> <<o>>

\* Bound of the decoder's exploration: the reads counted in one getter
\* call.
MaxReads == 3

\* The arguments connect() gives the UART constructor (lines 120-127) in a
\* SerialConnection built with defaults: DEFAULT_BAUDRATE, 8 bits, no
\* parity, 1 stop bit, int(DEFAULT_TIMEOUT * 1000) ms.
UartSettings ==
    [baudrate |-> 9600, bits |-> 8, parity |-> "None", stop |-> 1, timeout |-> 3000]

\* A late answer of the controller, the register value 999, that reaches
\* the receive buffer after the attempt it answers has given up.
Stale == Frame(slave_id, function_code, <<3, 231>>)

\* ---------------------------------------------------------------- state
VARIABLES
    uart,       \* self.uart: "open" or "none"
    pc,         \* position of read_register
    register,   \* argument register
    bits,       \* argument bits (the register count)
    attempt,    \* loop variable of "for attempt in range(self.retries)"
    sent,       \* frames written by uart.write during the call
    response,   \* local variable response
    result,     \* value returned by the call
    raised,     \* an exception left read_register
    cache,      \* the _cached_* attributes of the decoder
    dpc,        \* position of the decoder: "new", "idle", "call", "sleep", "loop"
    op,         \* the operation the caller invoked
    todo,       \* getter calls the operation has still to make
    out,        \* <<key, value>> pairs the operation has collected
    ret,        \* what the operation returned or raised
    reads,      \* transport reads of the current getter call (up to MaxReads)
    link,       \* the channel: "up", "noisy" or "down"
    dev,        \* the controller on the line
    first_read, \* per cacheable field: what its getter returned for the
                \* first successful transport read ("pending" before it)
    rxbuf,      \* bytes waiting in the receive buffer of the UART
    drained,    \* what the draining uart.read() of the attempt returned
    connected,  \* what the last call of connect() returned
    line_settings, \* the arguments self.uart was constructed with
    closed,     \* what close() returned to a caller that has not read since
    api_pc,     \* position of Api.send_to_api: "idle", "try", "wait", "done"
    api_attempt, \* loop variable of "for attempt in range(self.RETRIES)"
    tried,      \* how each attempt of the call ended
    waits,      \* the arguments of time.sleep during the call
    api_ret,    \* what send_to_api returned
    ha_data,    \* argument of update_solar_controller_data, in item order
    ha_pc,      \* position of update_solar_controller_data
    ha_items,   \* items the for loop has still to visit
    updates,    \* the update_sensor calls made: <<key, state, returned>>
    success,    \* local variable success
    ha_ret,     \* what update_solar_controller_data returned
    lpc,        \* position of loop(): "setup", "top", "collect", "api",
                \* "ha", "rest", "except"
    uploads,    \* which of api and home_assistant are not None
    call_no,    \* which of the four collecting calls runs
    elapsed,    \* time.time() - start_time, in seconds (up to MaxElapsed)
    naps        \* arguments of light_sleep since the cycle began

tvars == <<uart, pc, register, bits, attempt, sent, response, result, raised,
           rxbuf, drained, connected, line_settings, closed>>

dvars == <<cache, dpc, op, todo, out, ret, reads, link, dev, first_read>>

apivars == <<api_pc, api_attempt, tried, waits, api_ret>>

havars == <<ha_data, ha_pc, ha_items, updates, success, ha_ret>>

loopvars == <<lpc, uploads, call_no, elapsed, naps>>

avars == <<apivars, havars, loopvars>>

vars == <<tvars, dvars, avars>>

\* The application around the decoder before main.loop() has run: no upload
\* has been asked for.
NotStarted ==
    /\ api_pc = "idle"
    /\ api_attempt = 0
    /\ tried = <<>>
    /\ waits = <<>>
    /\ api_ret = NoValue
    /\ ha_data = <<>>
    /\ ha_pc = "idle"
    /\ ha_items = <<>>
    /\ updates = <<>>
    /\ success = FALSE
    /\ ha_ret = NoValue
    /\ lpc = "setup"
    /\ uploads = {}
    /\ call_no = 0
    /\ elapsed = 0
    /\ naps = <<>>

\* A decoder not yet constructed, on a channel in any condition.
NewDecoder ==
    /\ cache = [f \in CachedFields |-> PyNone]
    /\ dpc = "new"
    /\ op = "__init__"
    /\ todo = <<>>
    /\ out = <<>>
    /\ ret = NoValue
    /\ reads = 0
    /\ link \in Links
    /\ dev \in Devices
    /\ first_read = [f \in CachedFields |-> NoValue]

\* SerialConnection.__init__: connect() either opens the UART or leaves None.
Init ==
    /\ uart \in {"open", "none"}
    /\ pc = "idle"
    /\ register = 0
    /\ bits = 0
    /\ attempt = 0
    /\ sent = <<>>
    /\ response = NoBytes
    /\ result = None
    /\ raised = FALSE
    /\ rxbuf = <<>>
    /\ drained = <<>>
    /\ connected = (uart = "open")
    /\ line_settings = IF uart = "open" THEN UartSettings ELSE <<>>
    /\ closed = NoValue
    /\ NewDecoder
    /\ NotStarted
    /\ link = "up"
    /\ dev = "A"

\* The decoder's transport: SerialConnection(baudrate=9600, timeout=0.5) with
\* its UART open.
InitDec ==
    /\ uart = "open"
    /\ pc = "idle"
    /\ register = 0
    /\ bits = 0
    /\ attempt = 0
    /\ sent = <<>>
    /\ response = NoBytes
    /\ result = None
    /\ raised = FALSE
    /\ rxbuf = <<>>
    /\ drained = <<>>
    /\ connected = TRUE
    /\ line_settings = [UartSettings EXCEPT !.timeout = 500]
    /\ closed = NoValue
    /\ NewDecoder
    /\ NotStarted

\* The head of the for loop with loop index k: another pass of the body, or
\* the fall-through "return None" of line 286.
LoopHeadOneMore(k) ==
    IF k <= retries
    THEN /\ attempt' = k
         /\ pc' = "connect"
         /\ result' = result
    ELSE /\ attempt' = attempt
         /\ pc' = "done"
         /\ result' = None

LoopHead(k) ==
    IF k < retries
    THEN /\ attempt' = k
         /\ pc' = "connect"
         /\ result' = result
    ELSE /\ attempt' = attempt
         /\ pc' = "done"
         /\ result' = None

\* An exception raised at `where`: the handler of lines 277-280, or out.
Raise(where) ==
    IF Caught(where)
    THEN pc' = "except" /\ raised' = raised
    ELSE pc' = "raised" /\ raised' = TRUE

\* read_register(register, bits) is entered.
read_register ==
    /\ pc = "idle"
    /\ \E rq \in Requests : register' = rq[1] /\ bits' = rq[2]
    /\ sent' = <<>>
    /\ response' = NoBytes
    /\ IF 0 < retries
       THEN attempt' = 0 /\ pc' = "connect" /\ result' = Pending
       ELSE attempt' = 0 /\ pc' = "done" /\ result' = None
    /\ drained' = <<>>
    /\ closed' = NoValue
    /\ UNCHANGED <<dvars, uart, raised, rxbuf, connected, line_settings>>
    /\ UNCHANGED avars

\* Lines 194-195 with connect (lines 107-133): a missing UART is opened, or
\* stays None when the constructor raises inside connect.
connect ==
    /\ pc = "connect"
    /\ IF uart = "none"
       THEN \/ /\ uart' = "open"
               /\ connected' = TRUE
               /\ line_settings' = UartSettings
            \/ /\ uart' = "none"
               /\ connected' = FALSE
               /\ line_settings' = line_settings
       ELSE UNCHANGED <<uart, connected, line_settings>>
    /\ pc' = "flush"
    /\ UNCHANGED <<dvars, register, bits, attempt, sent, response, result, raised,
                   rxbuf, drained, closed>>
    /\ UNCHANGED avars

\* An attempt that goes on to write without reading the buffer.
flush_keeps_buffer ==
    /\ pc = "flush"
    /\ \/ uart = "open" /\ pc' = "write" /\ raised' = raised
       \/ Raise("flush")
    /\ UNCHANGED <<dvars, uart, register, bits, attempt, sent, response, result,
                   rxbuf, drained, connected, line_settings, closed>>
    /\ UNCHANGED avars

\* Line 216: self.uart.read() drains the receive buffer; what it returns is
\* dropped.
flush ==
    /\ pc = "flush"
    /\ \/ /\ uart = "open"
          /\ pc' = "write"
          /\ raised' = raised
          /\ drained' = rxbuf
          /\ rxbuf' = <<>>
       \/ Raise("flush") /\ UNCHANGED <<rxbuf, drained>>
    /\ UNCHANGED <<dvars, uart, register, bits, attempt, sent, response, result,
                   connected, line_settings, closed>>
    /\ UNCHANGED avars

\* Line 219: self.uart.write(message).
write ==
    /\ pc = "write"
    /\ \/ /\ sent' = Append(sent, FrameOf[<<register, bits>>])
          /\ pc' = "settle"
          /\ raised' = raised
       \/ Raise("write") /\ sent' = sent
    /\ UNCHANGED <<dvars, uart, register, bits, attempt, response, result,
                   rxbuf, drained, connected, line_settings, closed>>
    /\ UNCHANGED avars

\* Line 222: time.sleep(0.1).
settle ==
    /\ pc = "settle"
    /\ pc' = "recv"
    /\ UNCHANGED <<dvars, uart, register, bits, attempt, sent, response, result, raised,
                   rxbuf, drained, connected, line_settings, closed>>
    /\ UNCHANGED avars

\* Lines 225-275: uart.read() returns what the buffer holds, the bytes r
\* that came in since the request after those that were waiting before it,
\* and the attempt decides.
recv ==
    /\ pc = "recv"
    /\ \/ \E r \in Responses :
            /\ response' = IF rxbuf = <<>> THEN r ELSE Bytes(rxbuf \o r.bytes)
            /\ rxbuf' = <<>>
            /\ LET v == IF rxbuf = <<>> THEN Decision[r]
                        ELSE Validate(Bytes(rxbuf \o r.bytes)) IN
               CASE v.kind = "retry" -> LoopHead(attempt + 1)
                 [] v.kind = "abort" ->
                        pc' = "done" /\ result' = None /\ attempt' = attempt
                 [] v.kind = "ok" ->
                        pc' = "done" /\ result' = List(v.regs) /\ attempt' = attempt
            /\ raised' = raised
       \/ Raise("recv") /\ UNCHANGED <<response, result, attempt, rxbuf>>
    /\ UNCHANGED <<dvars, uart, register, bits, sent, drained, connected,
                   line_settings, closed>>
    /\ UNCHANGED avars

\* Lines 277-280: the handler sleeps and the loop goes on.
except ==
    /\ pc = "except"
    /\ LoopHead(attempt + 1)
    /\ UNCHANGED <<dvars, uart, register, bits, sent, response, raised,
                   rxbuf, drained, connected, line_settings, closed>>
    /\ UNCHANGED avars

\* The caller takes the returned value.
return ==
    /\ pc = "done"
    /\ pc' = "idle"
    /\ UNCHANGED <<dvars, uart, register, bits, attempt, sent, response, result, raised,
                   rxbuf, drained, connected, line_settings, closed>>
    /\ UNCHANGED avars

\* A close() that calls deinit whatever self.uart holds.
close_without_guard ==
    /\ pc = "idle"
    /\ \/ uart = "open" /\ uart' = "none" /\ rxbuf' = <<>> /\ closed' = PyBool(TRUE)
       \/ uart' = uart /\ rxbuf' = rxbuf /\ closed' = PyBool(FALSE)
    /\ UNCHANGED <<dvars, pc, register, bits, attempt, sent, response, result, raised,
                   drained, connected, line_settings>>
    /\ UNCHANGED avars

\* close (lines 135-153): with a UART, deinit and self.uart = None, True
\* returned, or False when deinit raises; without one, True at once.
close ==
    /\ pc = "idle"
    /\ \/ uart' = "none" /\ rxbuf' = <<>> /\ closed' = PyBool(TRUE)
       \/ uart = "open" /\ uart' = uart /\ rxbuf' = rxbuf /\ closed' = PyBool(FALSE)
    /\ UNCHANGED <<dvars, pc, register, bits, attempt, sent, response, result, raised,
                   drained, connected, line_settings>>
    /\ UNCHANGED avars

\* A connect() that forgets the UART it had when the constructor raises.
reconnect_clears ==
    /\ pc = "idle"
    /\ uart' \in {"open", "none"}
    /\ connected' = (uart' = "open")
    /\ line_settings' = IF uart' = "open" THEN UartSettings ELSE <<>>
    /\ rxbuf' = <<>>
    /\ UNCHANGED <<dvars, pc, register, bits, attempt, sent, response, result, raised,
                   drained, closed>>
    /\ UNCHANGED avars

\* connect() called by the owner of the channel (lines 107-133), whatever
\* self.uart holds: a UART is constructed with the same arguments, assigned
\* and True returned; when the constructor raises, False is returned and
\* self.uart keeps what it held. A UART constructed anew may start with an
\* empty receive buffer.
reconnect ==
    /\ pc = "idle"
    /\ \/ /\ uart' = "open"
          /\ connected' = TRUE
          /\ line_settings' = UartSettings
          /\ rxbuf' \in {rxbuf, <<>>}
       \/ /\ connected' = FALSE
          /\ UNCHANGED <<uart, line_settings, rxbuf>>
    /\ UNCHANGED <<dvars, pc, register, bits, attempt, sent, response, result, raised,
                   drained, closed>>
    /\ UNCHANGED avars

\* A late answer arrives between two calls or between two attempts.
late ==
    /\ pc \in {"idle", "connect"}
    /\ uart = "open"
    /\ rxbuf = <<>>
    /\ rxbuf' = Stale
    /\ UNCHANGED <<dvars, uart, pc, register, bits, attempt, sent, response, result,
                   raised, drained, connected, line_settings, closed>>
    /\ UNCHANGED avars

Next ==
    \/ read_register
    \/ connect
    \/ flush
    \/ write
    \/ settle
    \/ recv
    \/ except
    \/ return
    \/ close
    \/ reconnect
    \/ late

Spec == Init /\ [][Next]_vars

\* --------------------------------------------------------- decoder steps
\* RenogyRoverLi.__init__ (lines 274-293) enters _initialize_static_data.
construct ==
    /\ dpc = "new"
    /\ dpc' = "call"
    /\ op' = "__init__"
    /\ todo' = Plan("__init__")
    /\ out' = <<>>
    /\ ret' = NoValue
    /\ reads' = 0
    /\ UNCHANGED <<tvars, cache, link, dev, first_read>>
    /\ UNCHANGED avars

\* No call of read_register is in progress: its arguments and locals are
\* those of a fresh frame.
NoCall ==
    /\ register' = 0
    /\ bits' = 0
    /\ attempt' = 0
    /\ sent' = <<>>
    /\ response' = NoBytes
    /\ result' = None
    /\ UNCHANGED <<uart, pc, raised, rxbuf, drained, connected, line_settings, closed>>

\* A caller invokes one of the operations ops.
Invoke(ops) ==
    /\ dpc = "idle"
    /\ \E oper \in ops : op' = oper /\ todo' = Plan(oper)
    /\ dpc' = "call"
    /\ out' = <<>>
    /\ ret' = NoValue
    /\ reads' = 0
    /\ NoCall
    /\ UNCHANGED <<cache, link, dev, first_read>>
    /\ UNCHANGED avars

\* A caller invokes a getter or an aggregate view.
call == Invoke(Operations)

\* A caller that only polls the battery: the rated values of register
\* 0x000A, the battery temperature and the battery view.
poll ==
    Invoke({"system_voltage_current", "system_intensity_current",
            "battery_temperature", "get_all_battery_info_datas"})

\* The transport variables after the call rr of read_register.
Transport(rr) ==
    /\ register' = rr.register
    /\ bits' = rr.bits
    /\ attempt' = rr.attempt
    /\ sent' = rr.sent
    /\ response' = rr.response
    /\ result' = rr.result
    /\ UNCHANGED <<uart, pc, raised, rxbuf, drained, connected, line_settings, closed>>

\* The next getter call of the operation runs (or, after sleep(5), its loop
\* body runs again) up to its return, its exception or its sleep. In
\* _initialize_static_data the returned value is assigned to the slot and an
\* exception is caught by the try block around the call.
get ==
    /\ dpc \in {"call", "loop"}
    /\ todo # <<>>
    /\ \E key \in {Head(todo)} :
       \E outcome \in {Getter(key, cache, link, dev)} :
       \E nr \in {Len(outcome.reads)} :
           /\ reads' = IF (IF dpc = "loop" THEN reads ELSE 0) + nr < MaxReads
                       THEN (IF dpc = "loop" THEN reads ELSE 0) + nr
                       ELSE MaxReads
           /\ IF nr > 0 THEN Transport(outcome.reads[nr]) ELSE UNCHANGED tvars
           /\ IF outcome.blocked
              THEN /\ dpc' = "sleep"
                   /\ cache' = outcome.cache
                   /\ UNCHANGED <<todo, out, ret>>
              ELSE IF outcome.ret.t = "raise"
              THEN /\ cache' = outcome.cache
                   /\ IF op = "__init__"
                      THEN dpc' = "call" /\ todo' = Tail(todo) /\ ret' = ret
                      ELSE dpc' = "idle" /\ todo' = <<>> /\ ret' = outcome.ret
                   /\ out' = out
              ELSE /\ cache' = IF op = "__init__"
                               THEN [outcome.cache EXCEPT ![key] = outcome.ret]
                               ELSE outcome.cache
                   /\ dpc' = "call"
                   /\ todo' = Tail(todo)
                   /\ out' = Append(out, <<key, outcome.ret>>)
                   /\ ret' = ret
           /\ first_read' =
                 IF /\ key \in CachedFields
                    /\ nr > 0
                    /\ outcome.reads[1].result.kind = "list"
                    /\ first_read[key].t = "pending"
                 THEN [first_read EXCEPT ![key] = outcome.ret]
                 ELSE first_read
    /\ UNCHANGED <<op, link, dev>>
    /\ UNCHANGED avars

\* sleep(5) in the except branch of a "while True" loop ends.
sleep ==
    /\ dpc = "sleep"
    /\ dpc' = "loop"
    /\ UNCHANGED <<tvars, cache, op, todo, out, ret, reads, link, dev, first_read>>
    /\ UNCHANGED avars

\* The operation returns: the constructor nothing, a getter its value, a
\* view the mapping it built.
finish ==
    /\ dpc = "call"
    /\ todo = <<>>
    /\ dpc' = "idle"
    /\ ret' = IF op = "__init__" THEN PyNone
              ELSE IF op \in Views THEN PyDict(out)
              ELSE out[1][2]
    /\ UNCHANGED <<tvars, cache, op, todo, out, reads, link, dev, first_read>>
    /\ UNCHANGED avars

\* The link comes up or goes down, before and between operations and while
\* a getter sleeps.
channel ==
    /\ dpc \in {"new", "idle", "sleep"}
    /\ link' \in Links \ {link}
    /\ UNCHANGED <<tvars, cache, dpc, op, todo, out, ret, reads, dev, first_read>>
    /\ UNCHANGED avars

\* Between operations the controller's settings and readings change.
reconfigure ==
    /\ dpc = "idle"
    /\ dev' \in Devices \ {dev}
    /\ UNCHANGED <<tvars, cache, dpc, op, todo, out, ret, reads, link, first_read>>
    /\ UNCHANGED avars

NextDec ==
    construct \/ call \/ get \/ sleep \/ finish \/ channel \/ reconfigure

SpecDec == InitDec /\ [][NextDec]_vars

\* The decoder under the polling caller, with time passing: a sleep ends, a
\* running operation takes its next step and returns when nothing is left
\* to do.
NextPoll ==
    construct \/ poll \/ get \/ sleep \/ finish \/ channel \/ reconfigure

FairDec ==
    /\ InitDec
    /\ [][NextPoll]_vars
    /\ WF_vars(sleep)
    /\ WF_vars(get)
    /\ WF_vars(finish)

\* A test harness invokes one of the getters it exercises.
measure == Invoke(MockedGetters)

\* The getter call runs against the served register value: as `get`, with
\* the read answered by the harness.
answer ==
    /\ dpc = "call"
    /\ op \in MockedGetters
    /\ todo # <<>>
    /\ \E raw \in Served(op) :
       \E rr \in {MockRead(link, ReadOf(op), raw)} :
       \E outcome \in {Mocked(op, cache, rr)} :
           /\ Transport(rr)
           /\ reads' = Len(outcome.reads)
           /\ cache' = outcome.cache
           /\ IF outcome.blocked
              THEN dpc' = "sleep" /\ UNCHANGED <<todo, out, ret>>
              ELSE IF outcome.ret.t = "raise"
              THEN dpc' = "idle" /\ todo' = <<>> /\ ret' = outcome.ret /\ out' = out
              ELSE /\ dpc' = "call"
                   /\ todo' = Tail(todo)
                   /\ out' = Append(out, <<op, outcome.ret>>)
                   /\ ret' = ret
    /\ UNCHANGED <<op, link, dev, first_read>>
    /\ UNCHANGED avars

\* Between two calls the harness changes the condition of the line.
degrade ==
    /\ dpc = "idle"
    /\ link' \in Links \ {link}
    /\ UNCHANGED <<tvars, cache, dpc, op, todo, out, ret, reads, dev, first_read>>
    /\ UNCHANGED avars

\* The decoder in the harness: constructed on controller A over a working
\* line, then its getters run against the controller or against served
\* values, on a line in any condition.
InitMock == InitDec /\ link = "up" /\ dev = "A"

NextMock ==
    construct \/ measure \/ get \/ answer \/ sleep \/ finish \/ degrade

SpecMock == InitMock /\ [][NextMock]_vars

\* ------------------------------------------- a view on a changing line
\* A caller asks for the battery view.
snapshot == Invoke({"get_all_battery_info_datas"})

\* Between two getter calls of the view the controller updates its
\* registers or the line changes: the getters make separate transport reads.
disturb ==
    /\ dpc \in {"call", "loop"}
    /\ op = "get_all_battery_info_datas"
    /\ todo # <<>>
    /\ \E lk \in Links, dv \in Devices :
          /\ <<lk, dv>> # <<link, dev>>
          /\ link' = lk
          /\ dev' = dv
    /\ UNCHANGED <<tvars, cache, dpc, op, todo, out, ret, reads, first_read>>
    /\ UNCHANGED avars

NextRace == construct \/ snapshot \/ get \/ sleep \/ finish \/ disturb

SpecRace == InitMock /\ [][NextRace]_vars

\* ------------------------------------------------- _calculate_crc alone
\* The byte strings _calculate_crc is applied to: every string of up to
\* MaxLen bytes out of 00, 01, 02, 03, 80 and FF, the request for two
\* registers at 0x0100 and the ASCII digits "123456789".
MaxLen == 3

Messages ==
    UNION {[1..n -> {0, 1, 2, 3, 128, 255}] : n \in 0..MaxLen}
    \cup {<<1, 3, 1, 0, 0, 2>>, <<49, 50, 51, 52, 53, 54, 55, 56, 57>>}

\* A caller is about to compute the CRC of one of the messages.
InitCrc ==
    /\ uart = "open"
    /\ pc = "idle"
    /\ register = 0
    /\ bits = 0
    /\ attempt = 0
    /\ sent = <<>>
    /\ response = NoBytes
    /\ result = None
    /\ raised = FALSE
    /\ rxbuf = <<>>
    /\ drained = <<>>
    /\ connected = TRUE
    /\ line_settings = UartSettings
    /\ closed = NoValue
    /\ cache = [f \in CachedFields |-> PyNone]
    /\ dpc = "call"
    /\ op = "_calculate_crc"
    /\ \E m \in Messages : todo = <<m>>
    /\ out = <<>>
    /\ ret = NoValue
    /\ reads = 0
    /\ link = "up"
    /\ dev = "A"
    /\ first_read = [f \in CachedFields |-> NoValue]
    /\ NotStarted

\* _calculate_crc(message): the pair <<argument, returned bytes>> is kept,
\* and "message += crc" (line 213) is what is left to check.
checksum ==
    /\ op = "_calculate_crc"
    /\ dpc = "call"
    /\ Len(out) = 0
    /\ \E crc \in {calculate_crc(Head(todo))} :
          /\ out' = <<<<Head(todo), crc>>>>
          /\ todo' = <<Head(todo) \o crc>>
    /\ UNCHANGED <<tvars, cache, dpc, op, ret, reads, link, dev, first_read>>
    /\ UNCHANGED avars

\* _calculate_crc over the message followed by its CRC bytes.
verify ==
    /\ op = "_calculate_crc"
    /\ dpc = "call"
    /\ Len(out) = 1
    /\ out' = Append(out, <<Head(todo), calculate_crc(Head(todo))>>)
    /\ todo' = <<>>
    /\ dpc' = "idle"
    /\ UNCHANGED <<tvars, cache, op, ret, reads, link, dev, first_read>>
    /\ UNCHANGED avars

NextCrc == checksum \/ verify

SpecCrc == InitCrc /\ [][NextCrc]_vars

\* ------------------------------------------------------ Api.send_to_api
\* DEFAULT_RETRIES and DEFAULT_BACKOFF_FACTOR (0.3) of Api.py.
RETRIES == 3

BACKOFF_FACTOR == PyFloat(3, 10)

wait_time_linear(k) == PyFloat(BACKOFF_FACTOR.n * (k + 1), BACKOFF_FACTOR.d)

\* wait_time = self.BACKOFF_FACTOR * (2 ** attempt)
wait_time(k) == PyFloat(BACKOFF_FACTOR.n * (2 ^ k), BACKOFF_FACTOR.d)

\* How the try block of one attempt can end: urequests.post returned a
\* response with a status code, urequests.post raised, or a statement before
\* it raised and no request was sent.
Tries ==
    {[t |-> "response", status |-> c] : c \in {200, 201, 204, 404, 500}}
        \cup {[t |-> "raise", status |-> 0], [t |-> "unsent", status |-> 0]}

\* response.status_code in [200, 201]
Accepted(e) == e.t = "response" /\ e.status \in {200, 201}

\* A caller invokes send_to_api(data).
send_to_api ==
    /\ api_pc \in {"idle", "done"}
    /\ api_pc' = "try"
    /\ api_attempt' = 0
    /\ tried' = <<>>
    /\ waits' = <<>>
    /\ api_ret' = NoValue
    /\ UNCHANGED <<tvars, dvars, havars, loopvars>>

\* The try block of one pass of the for loop.
post ==
    /\ api_pc = "try"
    /\ api_attempt < RETRIES
    /\ \E e \in Tries :
          /\ tried' = Append(tried, e)
          /\ IF Accepted(e)
             THEN api_pc' = "done" /\ api_ret' = PyBool(TRUE)
             ELSE api_pc' = "wait" /\ api_ret' = api_ret
    /\ UNCHANGED <<tvars, dvars, havars, loopvars, api_attempt, waits>>

\* time.sleep(wait_time) of the else branch and of the except handler, then
\* the next pass.
backoff ==
    /\ api_pc = "wait"
    /\ waits' = Append(waits, wait_time(api_attempt))
    /\ api_attempt' = api_attempt + 1
    /\ api_pc' = "try"
    /\ UNCHANGED <<tvars, dvars, havars, loopvars, tried, api_ret>>

\* The for loop is exhausted: "return False".
give_up ==
    /\ api_pc = "try"
    /\ api_attempt = RETRIES
    /\ api_pc' = "done"
    /\ api_ret' = PyBool(FALSE)
    /\ UNCHANGED <<tvars, dvars, havars, loopvars, api_attempt, tried, waits>>

NextApi == send_to_api \/ post \/ backoff \/ give_up

SpecApi == InitMock /\ [][NextApi]_vars

\* ------------------- HomeAssistantConnection.update_solar_controller_data
\* The mappings handed to the upload: the empty one, and four fields of the
\* decoder with values that are None, falsy (0, False) or neither.
Datas ==
    {<<>>} \cup
    { << <<"battery_voltage", a>>, <<"charging_status", b>>,
         <<"street_light_status", c>>, <<"version", d>> >> :
        a \in {PyNone, PyFloat(123, 10)},
        b \in {PyNone, PyInt(0), PyInt(2)},
        c \in {PyNone, PyBool(FALSE), PyBool(TRUE)},
        d \in {PyNone, PyStr("V1.2.3")} }

OmittedWhenFalsy(value) ==
    IsNone(value) \/ value = PyInt(0) \/ value = PyBool(FALSE)

\* "if value is None: continue"
Omitted(value) == IsNone(value)

\* A caller invokes update_solar_controller_data(data): "if not data:
\* return False", else the for loop over data.items() starts.
update_solar_controller_data ==
    /\ ha_pc \in {"idle", "done"}
    /\ \E d \in Datas :
          /\ ha_data' = d
          /\ IF d = <<>>
             THEN ha_pc' = "done" /\ ha_ret' = PyBool(FALSE) /\ ha_items' = <<>>
             ELSE ha_pc' = "loop" /\ ha_ret' = NoValue /\ ha_items' = d
    /\ updates' = <<>>
    /\ success' = FALSE
    /\ UNCHANGED <<tvars, dvars, apivars, loopvars>>

\* One pass of the for loop for an item that is left out.
omit ==
    /\ ha_pc = "loop"
    /\ ha_items # <<>>
    /\ Omitted(Head(ha_items)[2])
    /\ ha_items' = Tail(ha_items)
    /\ UNCHANGED <<tvars, dvars, apivars, loopvars, ha_data, ha_pc, updates,
                   success, ha_ret>>

\* One pass of the for loop that calls update_sensor, which returns a bool.
update_sensor ==
    /\ ha_pc = "loop"
    /\ ha_items # <<>>
    /\ ~Omitted(Head(ha_items)[2])
    /\ \E ok \in BOOLEAN :
          /\ updates' = Append(updates, <<Head(ha_items)[1], Head(ha_items)[2], ok>>)
          /\ success' = IF ok THEN TRUE ELSE success
    /\ ha_items' = Tail(ha_items)
    /\ UNCHANGED <<tvars, dvars, apivars, loopvars, ha_data, ha_pc, ha_ret>>

\* "return success"
return_success ==
    /\ ha_pc = "loop"
    /\ ha_items = <<>>
    /\ ha_pc' = "done"
    /\ ha_ret' = PyBool(success)
    /\ UNCHANGED <<tvars, dvars, apivars, loopvars, ha_data, ha_items, updates,
                   success>>

NextHa == update_solar_controller_data \/ omit \/ update_sensor \/ return_success

SpecHa == InitMock /\ [][NextHa]_vars

\* ------------------------------------------------------------ main.loop
\* SLEEP_TIME without an env.py, in seconds.
SLEEP_TIME == 60

\* The execution time of a cycle is followed up to MaxElapsed seconds.
MaxElapsed == 70

\* Seconds a call into the decoder or an upload can take.
Durations == {0, 30}

After(seconds) ==
    IF elapsed + seconds < MaxElapsed THEN elapsed + seconds ELSE MaxElapsed

sleep_time_unclamped(execution_time) == SLEEP_TIME - execution_time

\* sleep_time = max(1, SLEEP_TIME - execution_time)
sleep_time(execution_time) ==
    IF SLEEP_TIME - execution_time > 1 THEN SLEEP_TIME - execution_time ELSE 1

\* loop() before "while True": api and home_assistant are objects or None,
\* as the configuration says.
setup ==
    /\ lpc = "setup"
    /\ uploads' \in SUBSET {"api", "home_assistant"}
    /\ lpc' = "top"
    /\ UNCHANGED <<tvars, dvars, apivars, havars, call_no, elapsed, naps>>

\* A cycle starts: start_time = time.time().
begin ==
    /\ lpc = "top"
    /\ lpc' = "collect"
    /\ call_no' = 1
    /\ elapsed' = 0
    /\ naps' = <<>>
    /\ UNCHANGED <<tvars, dvars, apivars, havars, uploads>>

\* One of the four calls into the decoder (get_all_datas, controller info,
\* today's history, history): it returns or raises.
collect ==
    /\ lpc = "collect"
    /\ \E seconds \in Durations : elapsed' = After(seconds)
    /\ \/ lpc' = "except" /\ call_no' = call_no
       \/ call_no < 4 /\ lpc' = lpc /\ call_no' = call_no + 1
       \/ call_no = 4 /\ lpc' = "api" /\ call_no' = call_no
    /\ UNCHANGED <<tvars, dvars, apivars, havars, uploads, naps>>

\* "if api and UPLOAD_API": send_to_api returns a bool.
upload_api ==
    /\ lpc = "api"
    /\ IF "api" \in uploads
       THEN \E seconds \in Durations : elapsed' = After(seconds)
       ELSE elapsed' = elapsed
    /\ lpc' = "ha"
    /\ UNCHANGED <<tvars, dvars, apivars, havars, uploads, call_no, naps>>

\* "if home_assistant and UPLOAD_HOME_ASSISTANT": check_connection returns
\* a bool; after True the two update calls return or raise.
upload_ha ==
    /\ lpc = "ha"
    /\ IF "home_assistant" \in uploads
       THEN /\ \E seconds \in Durations : elapsed' = After(seconds)
            /\ lpc' \in {"rest", "except"}
       ELSE /\ elapsed' = elapsed
            /\ lpc' = "rest"
    /\ UNCHANGED <<tvars, dvars, apivars, havars, uploads, call_no, naps>>

\* The end of the try block: garbage collection, the LED blinks, the light
\* sleep for what is left of SLEEP_TIME.
rest ==
    /\ lpc = "rest"
    /\ naps' = Append(naps, sleep_time(elapsed))
    /\ lpc' = "top"
    /\ UNCHANGED <<tvars, dvars, apivars, havars, uploads, call_no, elapsed>>

\* The handler of "except Exception": the LED blinks for a second,
\* end_time is taken, the light sleep for what is left of SLEEP_TIME.
recover ==
    /\ lpc = "except"
    /\ elapsed' = After(1)
    /\ naps' = Append(naps, sleep_time(After(1)))
    /\ lpc' = "top"
    /\ UNCHANGED <<tvars, dvars, apivars, havars, uploads, call_no>>

NextLoop ==
    setup \/ begin \/ collect \/ upload_api \/ upload_ha \/ rest \/ recover

SpecLoop == InitMock /\ [][NextLoop]_vars

\* The handler runs to its end: the blinking and machine.lightsleep return.
FairLoop == SpecLoop /\ WF_vars(recover)

\* ================================================================ claims
\* A response that is a Modbus exception frame as line 233 sees it.
IsExceptionFrame(r) == ~r.none /\ Len(r.bytes) >= 5 /\ r.bytes[2] = 131

\* The CRC-16/MODBUS bytes that follow the first n bytes of b are right.
CrcFollows(b, n) == <<b[n + 1], b[n + 2]>> = calculate_crc(SubSeq(b, 1, n))

\* A response that passes every check of the claim C2.
PassesEveryCheck(r) ==
    /\ ~r.none
    /\ Len(r.bytes) >= 5
    /\ r.bytes[1] = 1
    /\ r.bytes[2] = 3
    /\ Len(r.bytes) >= 3 + r.bytes[3] + 2
    /\ CrcFollows(r.bytes, 3 + r.bytes[3])

\* The step is an attempt of the call reading a response (no error raised).
ReadsResponse == pc = "recv" /\ pc' \notin {"except", "raised"}

\* C1: every request frame written during a call is the 8 bytes
\* [1, 3, address>>8 & 0xFF, address & 0xFF, count>>8 & 0xFF, count & 0xFF,
\* crc_lo, crc_hi] with the CRC-16/MODBUS of the first six bytes, low byte
\* first; no other slave id or function code is written.
C1_RequestFrameExact ==
    \A f \in {sent[k] : k \in 1..Len(sent)} :
        /\ Len(f) = 8
        /\ f[1] = 1
        /\ f[2] = 3
        /\ f[3] = (register \div 256) % 256
        /\ f[4] = register % 256
        /\ f[5] = (bits \div 256) % 256
        /\ f[6] = bits % 256
        /\ CrcFollows(f, 6)

C1_Witness ==
    /\ Len(sent) >= 2
    /\ register = 57348
    /\ sent[2] = <<1, 3, 224, 4, 0, 2>> \o calculate_crc(<<1, 3, 224, 4, 0, 2>>)

\* C2: a register list is returned only for a response of at least 5 bytes
\* whose header is slave id 1 and function code 3, that holds
\* 3 + byte_count + 2 bytes and whose CRC matches; never a partial list.
C2_ListOnlyFromCheckedFrame ==
    result.kind = "list" => PassesEveryCheck(response)

C2_Witness ==
    /\ pc = "done"
    /\ result = List(<<123, 4>>)
    /\ attempt = 2

C5_Original ==
    (pc = "done" /\ result.kind = "list")
      => /\ Len(result.regs) = bits
         /\ \A k \in 1..Len(result.regs) :
               result.regs[k]
                 = response.bytes[3 + 2 * k - 1] * 256 + response.bytes[3 + 2 * k]

\* C6: no exception leaves read_register; the call ends with a register
\* list or None whatever the channel does.
C6_NeverRaises ==
    /\ raised = FALSE
    /\ pc # "raised"
    /\ pc = "done" => result.kind \in {"None", "list"}

C6_Witness ==
    /\ pc = "done"
    /\ result = None
    /\ uart = "none"
    /\ sent = <<>>
\* An operation of the decoder is running.
Running == dpc \in {"call", "loop", "sleep"}

\* C7 as claimed: every decoder operation returns or raises even when every
\* transport read fails; an operation running on a dead link ends unless
\* the link comes back.
C7_Original == (Running /\ link = "down") ~> (dpc = "idle" \/ link = "up")

\* C8 as claimed: no field getter and no aggregate view raises, and a field
\* getter whose transport read returned None reports None (the charging
\* label has its designed default).
C8_Original ==
    /\ ret.t # "raise"
    /\ (/\ dpc = "idle"
        /\ op \in FieldGetters \ {"charging_status_label"}
        /\ reads > 0
        /\ result = None)
         => IsNone(ret)

\* C9 as claimed: once a cacheable field has been read successfully, every
\* later call of its getter issues no transport read and returns the value
\* the first read gave, whatever that value was.
C9_Original ==
    [][ \A f \in CachedFields :
          (/\ dpc = "call"
           /\ todo # <<>>
           /\ Head(todo) = f
           /\ first_read[f].t # "pending")
            => /\ reads' = 0
               /\ out' = Append(out, <<f, first_read[f]>>)
      ]_vars

\* C10: a cache slot that holds a value is never changed or cleared, by any
\* getter call, aggregate view or transport failure.
C10_CacheNeverInvalidated ==
    [][ \A f \in CachedFields : ~IsNone(cache[f]) => cache'[f] = cache[f] ]_vars

\* The capacity cached from one controller is served, without a read, after
\* the controller's register has changed to 0.
C10_Witness ==
    /\ dpc = "idle"
    /\ op = "nominal_battery_capacity"
    /\ dev = "B"
    /\ link = "up"
    /\ cache["nominal_battery_capacity"] = PyInt(100)
    /\ ret = PyInt(100)
    /\ reads = 0

\* A step of _initialize_static_data has made a transport read that failed.
InitReadFailed == op = "__init__" /\ Running /\ reads > 0 /\ result = None

\* C11 as claimed: a transport read that fails during the eager
\* initialization is tolerated: the initialization still completes.
C11_Original == InitReadFailed ~> (dpc = "idle" /\ op = "__init__")

\* C12: every call of a getter of a non-cacheable field makes at least one
\* new call of read_register, for the address of the field it decodes, and
\* what it returns is decoded from the result of that call (shown for the
\* battery voltage and the rated current).
C12_FreshEveryCall ==
    [][ (/\ dpc \in {"call", "loop"}
         /\ todo # <<>>
         /\ Head(todo) \in FieldGetters \ CachedFields)
          => /\ reads' >= 1
             /\ sent' # <<>>
             /\ register' = sectionMap[ReadOf(Head(todo))].address
             /\ (Head(todo) = "battery_voltage")
                  => out' = Append(out, <<"battery_voltage",
                                IF result'.kind = "list"
                                THEN PyFloat(result'.regs[1], 10) ELSE PyNone>>)
             /\ (Head(todo) = "system_intensity_current" /\ dpc' = "call")
                  => out' = Append(out, <<"system_intensity_current",
                                          PyInt(result'.regs[1] % 256)>>)
      ]_vars

\* The battery voltage is read from controller B after the capacity was
\* cached from another controller.
C12_Witness ==
    /\ dpc = "idle"
    /\ op = "battery_voltage"
    /\ dev = "B"
    /\ link = "up"
    /\ reads = 1
    /\ Len(sent) = 1
    /\ ret = PyFloat(131, 10)
    /\ cache["nominal_battery_capacity"] = PyInt(100)

\* C13: on a channel that answers the request for address 0x101 with a valid
\* frame whose first register is r, get_battery_voltage returns r / 10 after
\* one request; on a channel that answers every request with a frame whose
\* CRC is damaged it writes exactly `retries` requests and returns None; it
\* does not raise.
C13_BatteryVoltageEndToEnd ==
    [][ (dpc = "call" /\ op = "battery_voltage" /\ todo # <<>>)
          => /\ dpc' = "call"
             /\ register' = 257
             /\ link = "up"
                  => /\ Len(sent') = 1
                     /\ ~response'.none
                     /\ out' = <<<<"battery_voltage",
                                   PyFloat(response'.bytes[4] * 256
                                             + response'.bytes[5], 10)>>>>
             /\ link = "noisy"
                  => /\ Len(sent') = retries
                     /\ ~response'.none
                     /\ out' = <<<<"battery_voltage", PyNone>>>>
      ]_vars

\* get_battery_voltage has returned None after `retries` frames with a wrong CRC.
C13_Witness ==
    /\ dpc = "idle"
    /\ op = "battery_voltage"
    /\ IsNone(ret)
    /\ Len(sent) = retries
    /\ ~response.none
    /\ Len(response.bytes) = 9
    /\ ~CrcFollows(response.bytes, 7)

\* The byte a temperature getter decodes: the low byte of the register at
\* 0x0103 for the battery, the high byte for the controller.
TemperatureByte ==
    IF op = "battery_temperature" THEN result.regs[1] % 256
    ELSE result.regs[1] \div 256

\* A temperature getter has returned after a successful read.
TemperatureRead ==
    /\ dpc = "idle"
    /\ op \in {"battery_temperature", "controller_temperature"}
    /\ result.kind = "list"

\* C14 as claimed: the magnitude is b & 0x7F and a set sign bit gives
\* -(magnitude - 128), so byte 0x9C gives 100.
C14_Original ==
    TemperatureRead
      => ret = PyInt(IF TemperatureByte >= 128
                     THEN -((TemperatureByte % 128) - 128)
                     ELSE TemperatureByte % 128)

\* C14 as amended: the magnitude is the whole byte b; the result is b when
\* bit 7 is 0 and -(b - 128) when bit 7 is 1, that is minus the value of
\* bits 0-6: byte 0x19 gives 25 and byte 0x9C gives -28.
C14_TemperatureDecode ==
    TemperatureRead
      => /\ register = 259
         /\ ret = PyInt(IF TemperatureByte >= 128
                        THEN -(TemperatureByte - 128)
                        ELSE TemperatureByte)
         /\ TemperatureByte >= 128 => ret.n = -(TemperatureByte % 128)

\* The controller temperature decoded from the high byte 0x9C.
C14_Witness ==
    /\ TemperatureRead
    /\ op = "controller_temperature"
    /\ TemperatureByte = 156
    /\ ret = PyInt(-28)

\* C15 as claimed: for a successfully read raw value get_battery_type
\* returns a label: that of the value when it is in 1..5, a default label
\* for every other value.
C15_Original ==
    (dpc = "idle" /\ op = "battery_type" /\ reads > 0 /\ result.kind = "list")
      => /\ ret.t = "str"
         /\ result.regs[1] \in 1..5 => ret = PyStr(BATTERY_TYPE[result.regs[1]])

\* C16 as claimed: get_charging_status_label returns the label of the raw
\* status (low byte of the register at 0x0120) when it is in 0..6 and
\* 'deactivated' otherwise, also when the read is absent.
C16_Original ==
    (dpc = "idle" /\ op = "charging_status_label")
      => ret = PyStr(IF result.kind = "list" /\ (result.regs[1] % 256) \in 0..6
                     THEN CHARGING_STATE[result.regs[1] % 256]
                     ELSE "deactivated")

\* C17 as claimed: no mapping an aggregate view returns holds a key whose
\* value is None.
C17_Original ==
    (dpc = "idle" /\ op \in Views /\ ret.t = "dict")
      => \A i \in 1..Len(ret.items) : ~IsNone(ret.items[i][2])

\* C18 as claimed: the register count in the request frame of a field's read
\* is the field's byte size divided by 2.
C18_Original ==
    \A f \in DOMAIN sectionMap :
        (reads > 0 /\ sent # <<>> /\ register = sectionMap[f].address)
          => sent[1][5] * 256 + sent[1][6] = sectionMap[f].bytes \div 2

\* The getters of the 32-bit counters.
Counters ==
    {"historical_total_charging_amp_hours",
     "historical_total_discharging_amp_hours",
     "historical_cumulative_power_generation",
     "historical_cumulative_power_consumption"}

\* A call of a counter getter on a working line returns the second register
\* of the response to a read at the field's address: the controller's
\* register at address + 1.
CounterReturnsOffsetOne ==
    (dpc = "call" /\ todo # <<>> /\ Head(todo) \in Counters /\ link = "up")
      => /\ register' = sectionMap[Head(todo)].address
         /\ out' = Append(out, <<Head(todo),
                      PyInt(response'.bytes[6] * 256 + response'.bytes[7])>>)
         /\ out' = Append(out, <<Head(todo),
                      PyInt(DeviceRegister(dev, sectionMap[Head(todo)].address + 1))>>)

BrightnessRead ==
    /\ dpc = "idle"
    /\ op = "street_light_brightness"
    /\ result.kind = "list"

StatusRead == dpc = "idle" /\ op = "street_light_status" /\ result.kind = "list"

\* C21: get_street_light_status returns True exactly when the brightness
\* derived from the panel voltage it read exceeds 12.3, and False otherwise,
\* a brightness of 0 included.
C21_StatusFromBrightness ==
    StatusRead =>
        /\ register = 263
        /\ ret = PyBool(10 * Brightness(result.regs[1]) > 123)

\* The status came out False for a light that is on at 9 percent (15.0 V),
\* after the two reads of the call.
C21_Witness ==
    /\ StatusRead
    /\ result.regs[1] = 150
    /\ Brightness(result.regs[1]) = 9
    /\ reads = 2
    /\ ret = PyBool(FALSE)

\* The getter g has returned after a transport read that gave registers.
ReadBy(g) == dpc = "idle" /\ op = g /\ reads > 0 /\ result.kind = "list"

VersionOf(hi, lo) ==
    PyStr("V" \o str(hi % 256) \o "." \o str(lo \div 256) \o "." \o str(lo % 256))

\* C23: get_version and get_hardware read at 0x0014; of the registers
\* reg0..reg3 of that read the version is formatted from reg0 and reg1, the
\* hardware string from reg2 and reg3, and a string is what each returns
\* for every successful read.
C23_VersionStrings ==
    /\ ReadBy("version") =>
            /\ register = 20
            /\ ret = VersionOf(result.regs[1], result.regs[2])
            /\ ret.t = "str"
    /\ ReadBy("hardware") =>
            /\ register = 20
            /\ ret = VersionOf(result.regs[3], result.regs[4])
            /\ ret.t = "str"

\* get_hardware answered 'V4.5.6' from the registers 1, 0x0203, 4, 0x0506
\* that also hold the version 'V1.2.3'.
C23_Witness ==
    /\ ReadBy("hardware")
    /\ result.regs = <<1, 515, 4, 1286>>
    /\ ret = PyStr("V4.5.6")
    /\ VersionOf(result.regs[1], result.regs[2]) = PyStr("V1.2.3")

\* The w-bit value v with its bits in the reverse order.
RECURSIVE Reflect(_, _)
Reflect(v, w) ==
    IF w = 0 THEN 0 ELSE (v % 2) * (2 ^ (w - 1)) + Reflect(v \div 2, w - 1)

\* CRC-16/MODBUS as its catalogue parameters define it: width 16,
\* polynomial 0x8005, initial value 0xFFFF, input and output reflected, no
\* final xor. The register is shifted left, most significant bit first.
ModbusShift(c) ==
    IF c >= 32768 THEN Xor((2 * c) % 65536, 32773) ELSE (2 * c) % 65536

RECURSIVE ModbusBits(_, _)
ModbusBits(c, n) == IF n = 0 THEN c ELSE ModbusBits(ModbusShift(c), n - 1)

RECURSIVE ModbusRegister(_, _, _)
ModbusRegister(c, data, i) ==
    IF i > Len(data) THEN c
    ELSE LET step == ModbusBits(Xor(c, 256 * Reflect(data[i], 8)), 8)
         IN  IF step >= 0 THEN ModbusRegister(step, data, i + 1) ELSE step

Crc16Modbus(data) == Reflect(ModbusRegister(65535, data, 1), 16)

\* C24: for every byte string, _calculate_crc returns the CRC-16/MODBUS of
\* the string, low byte first; for 01 03 01 00 00 02 that is C5 F7 (the
\* reference value 0xF7C5), and for "123456789" the check value 0x4B37.
C24_CrcIsModbus ==
    (op = "_calculate_crc" /\ Len(out) >= 1) =>
        /\ out[1][2] = <<Crc16Modbus(out[1][1]) % 256,
                         Crc16Modbus(out[1][1]) \div 256>>
        /\ out[1][1] = <<1, 3, 1, 0, 0, 2>> => out[1][2] = <<197, 247>>
        /\ out[1][1] = <<49, 50, 51, 52, 53, 54, 55, 56, 57>> =>
               out[1][2] = <<55, 75>>

\* The CRC of the request 01 03 01 00 00 02 has been computed.
C24_Witness ==
    /\ op = "_calculate_crc"
    /\ Len(out) = 1
    /\ out[1] = <<<<1, 3, 1, 0, 0, 2>>, <<197, 247>>>>

\* C25: the CRC computed over a byte string followed by its own CRC bytes
\* is the same residue, 00 00, for every string.
C25_RoundTripResidue ==
    (op = "_calculate_crc" /\ Len(out) = 2) =>
        /\ out[2][1] = out[1][1] \o out[1][2]
        /\ out[2][2] = <<0, 0>>

\* The residue of the request 01 03 01 00 00 02 C5 F7 has been computed.
C25_Witness ==
    /\ op = "_calculate_crc"
    /\ Len(out) = 2
    /\ out[2] = <<<<1, 3, 1, 0, 0, 2, 197, 247>>, <<0, 0>>>>

\* C26: in every attempt the receive buffer is drained before the request
\* is written: from the write to the read of the response the buffer holds
\* none of the bytes that waited in it when the attempt began, and the
\* registers the call returns are never those of the late answer.
C26_DrainedBeforeWrite ==
    /\ pc \in {"write", "settle", "recv"} => rxbuf = <<>>
    /\ (pc = "done" /\ result.kind = "list") =>
            /\ result # List(<<999>>)
            /\ response \in Responses

\* A late answer was waiting when the attempt began, the attempt dropped
\* it and the call returned the registers of the answer to its request.
C26_Witness ==
    /\ pc = "done"
    /\ drained = Stale
    /\ attempt >= 1
    /\ result = List(<<123, 4>>)

\* C27 as stated: every failed attempt is followed by a sleep before the
\* next request is written, that is, a further attempt is entered only from
\* the handler of lines 277-280, whose sleep is the only one between the
\* read of a response and the next write.
C27_Original ==
    [][attempt' = attempt + 1 => pc = "except"]_vars

\* C28 as stated: connect() on a channel that is connected leaves it
\* connected with the same settings and returns True.
C28_Original ==
    [][(reconnect /\ uart = "open") =>
            /\ uart' = "open"
            /\ line_settings' = line_settings
            /\ connected' = TRUE]_vars

\* C28: connect() on a channel that is connected leaves it connected, with
\* the settings 9600 baud, 8 bits, no parity, 1 stop bit and the timeout of
\* the instance, and leaves every other attribute and the state of
\* read_register as they were; it returns True when the UART constructor
\* returns and False when it raises.
C28_ReconnectKeepsChannel ==
    [][(reconnect /\ uart = "open") =>
            /\ uart' = "open"
            /\ line_settings' = line_settings
            /\ line_settings' = UartSettings
            /\ connected' \in BOOLEAN
            /\ UNCHANGED <<pc, register, bits, attempt, sent, response, result,
                           raised, drained, closed, dvars>>]_vars

\* connect() has returned False on a channel that is still connected.
C28_Witness ==
    /\ pc = "idle"
    /\ uart = "open"
    /\ connected = FALSE
    /\ line_settings = UartSettings

\* The keys of a returned mapping, and the keys a view is built from.
KeysOf(d) == {d.items[i][1] : i \in 1..Len(d.items)}

ViewKeys(v) == {Plan(v)[i] : i \in 1..Len(Plan(v))}

GroupViews == Views \ {"get_all_datas"}

\* C29: the mapping get_all_datas returns has as keys the union of the keys
\* of the six group views and 'controller_temperature',
\* 'street_light_status', 'street_light_brightness'; the mapping a group
\* view returns has the same keys (9, 7, 8, 3, 5 and 3 of them) whatever
\* the values read, each key once.
C29_AllDatasIsUnionOfViews ==
    (dpc = "idle" /\ ret.t = "dict") =>
        /\ Cardinality(KeysOf(ret)) = Len(ret.items)
        /\ op \in GroupViews => KeysOf(ret) = ViewKeys(op)
        /\ op = "get_all_datas" =>
               KeysOf(ret) =
                   UNION {ViewKeys(v) : v \in GroupViews}
                   \cup {"controller_temperature", "street_light_status",
                         "street_light_brightness"}
        /\ Len(ret.items) =
               CASE op = "get_today_historical_info_datas" -> 9
                 [] op = "get_historical_info_datas" -> 7
                 [] op = "get_all_controller_info_datas" -> 8
                 [] op = "get_all_solar_panel_info_datas" -> 3
                 [] op = "get_all_battery_info_datas" -> 5
                 [] op = "get_all_load_info_datas" -> 3
                 [] op = "get_all_datas" -> 38

\* get_all_datas has returned its 38 keys on controller B, where the
\* battery type decodes to None and the street light is off.
C29_Witness ==
    /\ dpc = "idle"
    /\ op = "get_all_datas"
    /\ ret.t = "dict"
    /\ dev = "B"
    /\ Len(ret.items) = 38
    /\ \E i \in 1..Len(ret.items) : ret.items[i] = <<"battery_type", PyNone>>
    /\ \E i \in 1..Len(ret.items) :
          ret.items[i] = <<"street_light_status", PyBool(FALSE)>>

\* The groups of fields documented as sharing a start address: 0x000A,
\* 0x0014, 0x0103 and 0x0120.
DocumentedAliases ==
    {{"system_voltage_current", "system_intensity_current"},
     {"hardware", "version"},
     {"battery_temperature", "controller_temperature"},
     {"street_light_status", "street_light_brightness", "charging_status"}}

\* C30 as stated: a getter that has read the start address of its own field
\* has read an address that no other field of sectionMap starts at, unless
\* both fields belong to one documented alias group.
C30_Original ==
    \A f \in DOMAIN sectionMap :
        (dpc = "idle" /\ op = f /\ reads > 0
            /\ register = sectionMap[f].address) =>
            \A g \in (DOMAIN sectionMap) \ {f} :
                sectionMap[g].address = register =>
                    \E grp \in DocumentedAliases : {f, g} \subseteq grp

\* A response of at least 5 bytes in which neither the last two bytes nor
\* the two bytes after the announced data are the CRC of what precedes them.
BadCrc(r) ==
    /\ ~r.none
    /\ Len(r.bytes) >= 5
    /\ ~CrcFollows(r.bytes, Len(r.bytes) - 2)
    /\ Len(r.bytes) >= 3 + r.bytes[3] + 2 => ~CrcFollows(r.bytes, 3 + r.bytes[3])

\* C33 as stated: a response whose CRC does not match only consumes its
\* attempt, so the call ends on one only when `retries` requests have been
\* written, also when its second byte is 0x83 or its slave id is not 1.
C33_Original ==
    [][(ReadsResponse /\ BadCrc(response') /\ pc' = "done")
          => Len(sent) = retries]_vars

\* A well-formed frame followed by further bytes.
Trailed(r) ==
    /\ ~r.none
    /\ Len(r.bytes) >= 5
    /\ Len(r.bytes) > 3 + r.bytes[3] + 2
    /\ SubSeq(r.bytes, 1, 3 + r.bytes[3] + 2) \in GoodFrames

\* C34: the CRC checked is the pair of bytes after the byte_count data
\* bytes: a valid frame followed by extra bytes is accepted and the call
\* returns the registers of the valid frame, whatever the extra bytes.
C34_CrcAfterData ==
    [][(ReadsResponse /\ Trailed(response')) =>
            /\ pc' = "done"
            /\ result'.kind = "list"
            /\ Bytes(SubSeq(response'.bytes, 1, 3 + response'.bytes[3] + 2))
                    \in Responses
            /\ result' = List(Decision[Bytes(SubSeq(response'.bytes, 1,
                                    3 + response'.bytes[3] + 2))].regs)
            /\ result' = List(<<123>>)]_vars

\* The frame of register 123 followed by the byte 07 has been accepted.
C34_Witness ==
    /\ pc = "done"
    /\ response = Bytes(<<1, 3, 2, 0, 123>> \o calculate_crc(<<1, 3, 2, 0, 123>>)
                        \o <<7>>)
    /\ result = List(<<123>>)

\* C35 as stated: the requests written when a call returns registers are
\* as many as the attempts made up to the accepted one.
C35_Original ==
    (pc = "done" /\ result.kind = "list") => Len(sent) = attempt + 1

\* C35: an attempt whose response passes every check ends the call with
\* its registers and nothing more is written in the call; the requests
\* written are one per attempt that reached the write, at least one and at
\* most the number of attempts made.
C35_StopsAtFirstAccepted ==
    [][/\ (ReadsResponse /\ PassesEveryCheck(response')) =>
              /\ pc' = "done"
              /\ result'.kind = "list"
              /\ sent' = sent
       /\ pc = "done" => sent' = sent
       /\ (pc' = "done" /\ result'.kind = "list") =>
              /\ Len(sent') >= 1
              /\ Len(sent') <= attempt' + 1]_vars

\* Registers were returned by the third attempt, the only one that wrote a
\* request: the first two found no UART.
C35_Witness ==
    /\ pc = "done"
    /\ result = List(<<123, 4>>)
    /\ attempt = 2
    /\ Len(sent) = 1

\* C38: a request is written and a response read only on an open channel,
\* so the call that follows a close() opens it again (lines 194-195) before
\* its first write or writes nothing; close() on a released channel returns
\* True and changes nothing.
C38_NoTrafficOnReleasedChannel ==
    [][/\ pc \in {"write", "settle", "recv"} => uart = "open"
       /\ Len(sent') > Len(sent) => uart = "open"
       /\ response' # response => (uart = "open" \/ pc = "idle")
       /\ (close /\ uart = "none") =>
              /\ closed' = PyBool(TRUE)
              /\ UNCHANGED <<uart, pc, register, bits, attempt, sent, response,
                            result, raised, rxbuf, drained, connected,
                            line_settings, dvars>>]_vars

\* close() has returned True on a channel that connect() had opened and
\* that is released now.
C38_Witness ==
    /\ pc = "idle"
    /\ uart = "none"
    /\ closed = PyBool(TRUE)
    /\ connected = TRUE
    /\ line_settings = UartSettings

\* C36 as stated: in the mapping get_all_battery_info_datas returns,
\* charging_status_label is CHARGING_STATE.get of the charging_status of the
\* same mapping, whatever happens between the reads that build it.
C36_Original ==
    (dpc = "idle" /\ op = "get_all_battery_info_datas" /\ ret.t = "dict") =>
        \A i, j \in 1..Len(ret.items) :
            (ret.items[i][1] = "charging_status"
                /\ ret.items[j][1] = "charging_status_label") =>
                ret.items[j][2] = TableGet(CHARGING_STATE, ret.items[i][2])

\* C37: frame condition of the cache. A cache slot only changes in a call of
\* its own getter, and only from None to a value: a getter of a
\* non-cacheable field changes no slot, a getter of a cacheable field no
\* slot but its own.
C37_CacheFrame ==
    [][ \A f \in CachedFields :
          cache'[f] # cache[f] =>
              /\ dpc \in {"call", "loop"}
              /\ todo # <<>>
              /\ Head(todo) = f
              /\ IsNone(cache[f])
              /\ ~IsNone(cache'[f])
      ]_vars

\* get_version() on a decoder built while the line was down has filled its
\* own slot from a read and left the empty slots of hardware and serial
\* number empty.
C37_Witness ==
    /\ dpc = "idle"
    /\ op = "version"
    /\ reads > 0
    /\ ~IsNone(cache["version"])
    /\ ret = cache["version"]
    /\ IsNone(cache["hardware"])
    /\ IsNone(cache["serial_number"])

\* The POST requests of the call: the attempts that reached urequests.post.
Posts == {i \in 1..Len(tried) : tried[i].t # "unsent"}

\* C39: a call of send_to_api sends at most RETRIES POST requests; an
\* accepted response (200 or 201) is the last thing the call does and makes
\* it return True; it returns False exactly when RETRIES attempts all ended
\* with another status or an exception; it returns a bool and never raises;
\* and the wait before retry k (from 0) is BACKOFF_FACTOR * 2^k.
C39_RetriesWithBackoff ==
    /\ Cardinality(Posts) <= RETRIES
    /\ \A i \in 1..Len(tried) :
          Accepted(tried[i]) =>
              i = Len(tried) /\ api_pc = "done" /\ api_ret = PyBool(TRUE)
    /\ api_ret = PyBool(TRUE) =>
          Len(tried) > 0 /\ Accepted(tried[Len(tried)])
    /\ api_ret = PyBool(FALSE) <=>
          /\ api_pc = "done"
          /\ Len(tried) = RETRIES
          /\ \A i \in 1..RETRIES : ~Accepted(tried[i])
    /\ api_pc = "done" => api_ret \in {PyBool(TRUE), PyBool(FALSE)}
    /\ api_pc = "try" => Len(waits) = api_attempt
    /\ \A k \in 0..(Len(waits) - 1) :
          waits[k + 1] = PyFloat(BACKOFF_FACTOR.n * (2 ^ k), BACKOFF_FACTOR.d)

\* A call whose first POST raised and whose second got status 500 returned
\* True after the third, having waited 0.3 s and 0.6 s.
C39_Witness ==
    /\ api_pc = "done"
    /\ api_ret = PyBool(TRUE)
    /\ Len(tried) = 3
    /\ tried[1].t = "raise"
    /\ tried[2] = [t |-> "response", status |-> 500]
    /\ tried[3] = [t |-> "response", status |-> 201]
    /\ waits = <<PyFloat(3, 10), PyFloat(6, 10)>>

\* The items of the mapping whose value is not None, in the mapping's order.
NotNone(it) == ~IsNone(it[2])

Due == SelectSeq(ha_data, NotNone)

\* C32: update_solar_controller_data calls update_sensor once for each key
\* of the mapping whose value is not None, with that value, and for no
\* other key; it returns True exactly when one of these calls returned True.
C32_NoUpdateForNone ==
    /\ \A i \in 1..Len(updates) : ~IsNone(updates[i][2])
    /\ ha_pc = "done" =>
          /\ \A i, j \in 1..Len(updates) : updates[i][1] = updates[j][1] => i = j
          /\ {<<updates[i][1], updates[i][2]>> : i \in 1..Len(updates)}
                = {Due[i] : i \in 1..Len(Due)}
          /\ ha_ret = PyBool(\E i \in 1..Len(updates) : updates[i][3])

\* A mapping with a None voltage, status 0, street light False and a
\* version: three updates were sent, the falsy values among them, only the
\* last succeeded, and the call returned True.
C32_Witness ==
    /\ ha_pc = "done"
    /\ ha_data = << <<"battery_voltage", PyNone>>, <<"charging_status", PyInt(0)>>,
                    <<"street_light_status", PyBool(FALSE)>>,
                    <<"version", PyStr("V1.2.3")>> >>
    /\ updates = << <<"charging_status", PyInt(0), FALSE>>,
                    <<"street_light_status", PyBool(FALSE), FALSE>>,
                    <<"version", PyStr("V1.2.3"), TRUE>> >>
    /\ ha_ret = PyBool(TRUE)

\* C31: an exception raised while collecting or uploading never ends the
\* polling loop: the handler does one light sleep of at least 1 second and
\* the next cycle starts, and the loop always has a next step.
C31_LoopSurvivesExceptions ==
    /\ [][lpc = "except" =>
            /\ lpc' = "top"
            /\ Len(naps') = 1
            /\ naps'[1] >= 1]_vars
    /\ (lpc = "except") ~> (lpc = "top" /\ Len(naps) = 1 /\ naps[1] >= 1)
    /\ [](ENABLED <<NextLoop>>_vars)

\* The Home Assistant upload raised when SLEEP_TIME had already passed: the
\* handler blinked for a second, slept the minimum of 1 second and the loop
\* is at the top.
C31_Witness ==
    /\ lpc = "top"
    /\ call_no = 4
    /\ elapsed = SLEEP_TIME + 1
    /\ naps = <<1>>
====
